---------------------------- MODULE Spec2Model ----------------------------
(***************************************************************************)
(* A model of src/ai_insights_engine.py: FinancialAIInsights, the engine   *)
(* that turns a list of transactions into ranked insights and a health     *)
(* score.                                                                  *)
(*                                                                         *)
(* analyze_transactions is modelled statement group by statement group:    *)
(* pc is the position inside the try block (lines 25-74), and one action   *)
(* models each group.  An exception raised by a group moves pc to          *)
(* "except", the handler of lines 68-74.                                   *)
(*                                                                         *)
(* Representation of the data.                                             *)
(*   - a date is a day number (midnight UTC); day 0 is 1 January of a      *)
(*     non-leap year, so calendar months are those of MonthStart;          *)
(*   - an amount is an integer number of mills (1/1000 of the currency     *)
(*     unit): 15.004 is 15004.  Pandas and Python compute in binary        *)
(*     floating point; comparisons against the thresholds of the code are  *)
(*     made exactly, by cross-multiplication, and real-valued results      *)
(*     (percentages, scores, confidences) are kept as fixed-point numbers  *)
(*     in hundredths, written x100;                                        *)
(*   - healthScore.overall, one decimal in the code, is kept in tenths;    *)
(*   - an insight's title and description (formatted text) are left out.   *)
(***************************************************************************)
EXTENDS Integers, Sequences, FiniteSets, TLC

VARIABLES
    selfInsights,       \* self.insights        (line 18)
    selfHealthScore,    \* self.health_score    (line 19)
    transactions_data,  \* the argument of the call in progress
    now,                \* the wall clock read by pd.Timestamp.now (a day number)
    pc,                 \* position inside analyze_transactions
    transactions,       \* the decoded list of lines 27-30
    df,                 \* the DataFrame of lines 36-44
    insights,           \* the local list of line 46
    emitted,            \* the list returned by the analyzer that ran last
    health_score,       \* the local of line 57
    exc,                \* str(e) of the exception being handled, "" if none
    result,             \* the value returned by the call
    calls               \* the calls completed so far on this engine instance

vars == <<selfInsights, selfHealthScore, transactions_data, now, pc,
          transactions, df, insights, emitted, health_score, exc, result, calls>>

-----------------------------------------------------------------------------
(* Bounds of the model.                                                    *)

\* the day on which the analysis runs
Now == 100
\* longest input list of the mixed (well-formed and malformed) family
MaxMixed == 3
\* longest input list of the run family (one record every Stride days)
MaxRun == 7
\* longest input list of the cash-flow family
MaxCash == 4
\* longest input list of the recurring-charge family
MaxCharges == 3
\* longest input list of the category-trend family
MaxTrend == 3
\* number of calls made on one engine instance
MaxCalls == 3

-----------------------------------------------------------------------------
(* Arithmetic.                                                             *)

Abs(x) == IF x < 0 THEN -x ELSE x

Min2(a, b) == IF a <= b THEN a ELSE b

Max2(a, b) == IF a >= b THEN a ELSE b

RECURSIVE GCD(_, _)
GCD(a, b) == IF b = 0 THEN a ELSE GCD(b, a % b)

RECURSIVE SumSeq(_)
SumSeq(s) == IF s = <<>> THEN 0 ELSE Head(s) + SumSeq(Tail(s))

RECURSIVE SumSquares(_)
SumSquares(s) == IF s = <<>> THEN 0 ELSE Head(s) * Head(s) + SumSquares(Tail(s))

RECURSIVE GCDSeq(_)
GCDSeq(s) == IF s = <<>> THEN 0 ELSE GCD(Head(s), GCDSeq(Tail(s)))

\* floor of the square root of n >= 0, by bisection on [lo, hi)
RECURSIVE SqrtIn(_, _, _)
SqrtIn(n, lo, hi) ==
    IF hi - lo <= 1 THEN lo
    ELSE LET mid == (lo + hi) \div 2
         IN  IF mid * mid <= n THEN SqrtIn(n, mid, hi) ELSE SqrtIn(n, lo, mid)

ISqrt(n) == SqrtIn(n, 0, Min2(n, 46340) + 1)

\* <<quotient, remainder>> of a * b by c, for 0 <= a < c and b >= 0, without
\* forming the product a * b
RECURSIVE MulDivRem(_, _, _)
MulDivRem(a, b, c) ==
    IF b = 0 THEN <<0, 0>>
    ELSE LET h == MulDivRem(a, b \div 2, c)
             r == 2 * h[2] + (b % 2) * a
         IN  <<2 * h[1] + r \div c, r % c>>

\* floor(a * b / c) for a >= 0, b >= 0, c > 0
MulDiv(a, b, c) == (a \div c) * b + MulDivRem(a % c, b, c)[1]

\* a * b / c rounded toward zero, for any sign of a (b >= 0, c > 0)
MulDivT(a, b, c) == IF a >= 0 THEN MulDiv(a, b, c) ELSE -MulDiv(-a, b, c)

\* Python's round() of a fixed-point number in hundredths: to the nearest
\* integer, a tie going to the even one
RoundHalfEven(x100) ==
    LET q == x100 \div 100
        r == x100 % 100
    IN  IF r < 50 THEN q
        ELSE IF r > 50 THEN q + 1
        ELSE IF q % 2 = 0 THEN q ELSE q + 1

\* Series.round(2) of an amount in mills (the result again in mills)
Round2(a) ==
    LET m == Abs(a)
        q == m \div 10
        r == m % 10
        c == IF r < 5 THEN q
             ELSE IF r > 5 THEN q + 1
             ELSE IF q % 2 = 0 THEN q ELSE q + 1
    IN  IF a < 0 THEN -(c * 10) ELSE c * 10

\* a value given in percent or points, as a fixed-point number in hundredths
X100(p) == p * 100

\* an amount given in whole currency units, in mills
Units(u) == u * 1000

-----------------------------------------------------------------------------
(* Sequences.                                                              *)

Range(s) == {s[i] : i \in DOMAIN s}

\* the elements of a set of integers in increasing order
RECURSIVE SortedInts(_)
SortedInts(S) ==
    IF S = {} THEN <<>>
    ELSE LET m == CHOOSE x \in S : \A y \in S : x <= y
         IN  <<m>> \o SortedInts(S \ {m})

\* a sequence of integers in non-decreasing order (duplicates kept)
RECURSIVE InsertInt(_, _)
InsertInt(x, s) ==
    IF s = <<>> THEN <<x>>
    ELSE IF x < Head(s) THEN <<x>> \o s
    ELSE <<Head(s)>> \o InsertInt(x, Tail(s))

RECURSIVE SortInts(_)
SortInts(s) == IF s = <<>> THEN <<>> ELSE InsertInt(Head(s), SortInts(Tail(s)))

-----------------------------------------------------------------------------
(* The calendar: Timestamp.dt.to_period('M') and the labels of the input.  *)

\* first day of January .. July of a non-leap year
MonthStart == <<0, 31, 59, 90, 120, 151, 181>>

\* dt.to_period('M'): the calendar month (1 = January) of a day number
MonthOf(d) == Cardinality({i \in DOMAIN MonthStart : MonthStart[i] <= d})

\* The category and merchant labels of the model, in the order in which
\* groupby sorts its keys (string order).
Categories == <<"Dining", "Eating Out", "Rent">>

Merchants == <<"Gym", "Netflix", "Store">>

KeyRank(labels, x) == CHOOSE i \in DOMAIN labels : labels[i] = x

\* label.lower().replace(" ", "-")
Slug(x) ==
    CASE x = "Dining"     -> "dining"
      [] x = "Eating Out" -> "eating-out"
      [] x = "Rent"       -> "rent"
      [] x = "Gym"        -> "gym"
      [] x = "Netflix"    -> "netflix"
      [] x = "Store"      -> "store"

-----------------------------------------------------------------------------
(* The input.  A raw record is one dict of the list handed to the engine.  *)
(* Its date is a timestamp ("ts") or a string that does not parse ("str"); *)
(* its amount is a number ("num"), a string that does not parse ("str"),   *)
(* or the key is absent from the dict ("absent").                          *)

Tx(d, a, c, m) ==
    [date |-> [k |-> "ts", v |-> d], amount |-> [k |-> "num", v |-> a],
     category |-> c, merchant |-> m]

BadDateTx(a, c, m) ==
    [date |-> [k |-> "str", v |-> 0], amount |-> [k |-> "num", v |-> a],
     category |-> c, merchant |-> m]

BadAmountTx(d, c, m) ==
    [date |-> [k |-> "ts", v |-> d], amount |-> [k |-> "str", v |-> 0],
     category |-> c, merchant |-> m]

NoAmountTx(d, c, m) ==
    [date |-> [k |-> "ts", v |-> d], amount |-> [k |-> "absent", v |-> 0],
     category |-> c, merchant |-> m]

\* the argument as a decoded list
AsList(items) == [kind |-> "list", valid |-> TRUE, items |-> items]

\* the argument as JSON text that decodes to items
AsText(items) == [kind |-> "text", valid |-> TRUE, items |-> items]

\* the argument as text that is not JSON
InvalidText == [kind |-> "text", valid |-> FALSE, items |-> <<>>]

\* json.loads: the decoded value, or JSONDecodeError
JsonLoads(text) ==
    IF text.valid THEN [raised |-> FALSE, error |-> "", value |-> text.items]
    ELSE [raised |-> TRUE, error |-> "Expecting value: line 1 column 1 (char 0)",
          value |-> <<>>]

\* lines 27-30: the list the rest of the method works on
Decode(data) ==
    IF data.kind = "text" THEN JsonLoads(data)
    ELSE [raised |-> FALSE, error |-> "", value |-> data.items]

\* the emptiness test of line 32 left out
IsEmptyInputNever(txs) == FALSE

\* line 32: "not transactions"
IsEmptyInput(txs) == Len(txs) = 0

-----------------------------------------------------------------------------
(* Lines 36-44: the DataFrame.  A row keeps its index label idx (the       *)
(* 0-based position of its record in the input), which every filtered view *)
(* of the frame keeps too.  A record without an amount key gets NaN.       *)

FrameRow(i, tx) ==
    [idx |-> i - 1, date |-> tx.date.v,
     amount |-> IF tx.amount.k = "num" THEN tx.amount.v ELSE 0,
     isnan |-> tx.amount.k # "num",
     category |-> tx.category, merchant |-> tx.merchant]

\* pd.DataFrame, pd.to_datetime and pd.to_numeric: the frame, or the error
BuildFrame(txs) ==
    LET rows == [i \in DOMAIN txs |-> FrameRow(i, txs[i])]
        fail(msg) == [raised |-> TRUE, error |-> msg, rows |-> <<>>]
    IN  IF txs = <<>> THEN fail("'date'")
        ELSE IF \E i \in DOMAIN txs : txs[i].date.k = "str"
            THEN fail("Unknown datetime string format, unable to parse: not-a-date")
        ELSE IF \A i \in DOMAIN txs : txs[i].amount.k = "absent"
            THEN fail("'amount'")
        ELSE IF \E i \in DOMAIN txs : txs[i].amount.k = "str"
            THEN fail("Unable to parse string \"x\"")
        ELSE [raised |-> FALSE, error |-> "", rows |-> rows]

\* df[df['amount'] < 0] with amount replaced by its magnitude
IsExpense(row) == ~row.isnan /\ row.amount < 0

IsIncome(row) == ~row.isnan /\ row.amount > 0

Expenses(frame) ==
    LET neg == SelectSeq(frame, IsExpense)
    IN  [i \in DOMAIN neg |-> [neg[i] EXCEPT !.amount = Abs(neg[i].amount)]]

Amounts(rows) == [i \in DOMAIN rows |-> rows[i].amount]

OfCategory(rows, c) == SelectSeq(rows, LAMBDA r : r.category = c)

\* the keys of groupby('category'), in sorted order
CategoryKeys(rows) ==
    SelectSeq(Categories, LAMBDA c : \E i \in DOMAIN rows : rows[i].category = c)

-----------------------------------------------------------------------------
(* analyze_spending_patterns, lines 76-156.                                *)

\* line 99: expenses['date'] >= now - 30 days
RecentExpenses(expenses, t) == SelectSeq(expenses, LAMBDA r : r.date >= t - 30)

\* line 100: now - 60 days <= date < now - 30 days
PreviousExpenses(expenses, t) ==
    SelectSeq(expenses, LAMBDA r : r.date >= t - 60 /\ r.date < t - 30)

\* ((recent - previous) / previous) * 100, in hundredths of a percent
ChangeX100(recent, previous) == MulDivT(recent - previous, 10000, previous)

\* abs(change) > limit, with change = (recent - previous) / previous * 100
\* and limit in percent
ChangeExceeds(recent, previous, limit) ==
    Abs(recent - previous) * 100 > limit * previous

\* lines 102-125: the overall trend
SpendingTrend(expenses, t) ==
    LET recent   == RecentExpenses(expenses, t)
        previous == PreviousExpenses(expenses, t)
        recent_total   == SumSeq(Amounts(recent))
        previous_total == SumSeq(Amounts(previous))
        up  == recent_total > previous_total
        big == ChangeExceeds(recent_total, previous_total, 30)
    IN  IF recent # <<>> /\ previous # <<>> /\ previous_total > 0
           /\ ChangeExceeds(recent_total, previous_total, 15)
        THEN << [id |-> "spending-trend",
                 type |-> IF up THEN "alert" ELSE "prediction",
                 impact |-> IF big THEN "High" ELSE "Medium",
                 confidence |-> Min2(X100(95),
                     X100(70) + Abs(ChangeX100(recent_total, previous_total))),
                 category |-> "Spending Analysis",
                 actionable |-> up,
                 priority |-> IF big THEN 9 ELSE 7,
                 metadata |-> [amount |-> recent_total,
                               change |-> ChangeX100(recent_total, previous_total),
                               previous_amount |-> previous_total]] >>
        ELSE <<>>

\* line 139: abs(category_change) > 25
CategoryChangeFires(category_recent, category_previous) ==
    ChangeExceeds(category_recent, category_previous, 25)

\* lines 129-154: the body of the loop, for one category
CategoryTrend(expenses, t, category) ==
    LET category_recent ==
            SumSeq(Amounts(OfCategory(RecentExpenses(expenses, t), category)))
        category_previous ==
            SumSeq(Amounts(OfCategory(PreviousExpenses(expenses, t), category)))
    IN  IF category_previous > 0 /\ category_recent > 0
           /\ CategoryChangeFires(category_recent, category_previous)
        THEN << [id |-> "category-trend-" \o Slug(category),
                 type |-> IF category_recent > category_previous
                          THEN "recommendation" ELSE "opportunity",
                 impact |-> "Medium",
                 confidence |-> X100(85),
                 category |-> category,
                 actionable |-> TRUE,
                 priority |-> 6,
                 metadata |-> [amount |-> category_recent,
                               change |-> ChangeX100(category_recent,
                                                     category_previous)]] >>
        ELSE <<>>

RECURSIVE CategoryTrends(_, _, _)
CategoryTrends(expenses, t, keys) ==
    IF keys = <<>> THEN <<>>
    ELSE CategoryTrend(expenses, t, Head(keys))
         \o CategoryTrends(expenses, t, Tail(keys))

analyze_spending_patterns(frame, t) ==
    LET expenses == Expenses(frame)
    IN  IF expenses = <<>> THEN <<>>
        ELSE SpendingTrend(expenses, t)
             \o CategoryTrends(expenses, t, CategoryKeys(expenses))

-----------------------------------------------------------------------------
(* analyze_cash_flow, lines 335-380.                                       *)

\* df[df['amount'] > 0]['amount'].sum()
Income(frame) == SumSeq(Amounts(SelectSeq(frame, IsIncome)))

\* df[df['amount'] < 0]['amount'].abs().sum()
ExpenseTotal(frame) == SumSeq(Amounts(Expenses(frame)))

\* ((income - expenses) / income) * 100, in hundredths of a percent
SavingsRateX100(income, expenses) == MulDivT(income - expenses, 10000, income)

\* line 345 with <= for <
LowSavingsInclusive(income, expenses) == (income - expenses) * 10 <= income

\* line 345: savings_rate < 10, both sides multiplied by income / 10
LowSavings(income, expenses) == (income - expenses) * 10 < income

\* line 363: savings_rate > 30, both sides multiplied by income / 10
HighSavings(income, expenses) == (income - expenses) * 10 > 3 * income

analyze_cash_flow(frame) ==
    LET income   == Income(frame)
        expenses == ExpenseTotal(frame)
    IN  IF income > 0
        THEN IF LowSavings(income, expenses)
             THEN << [id |-> "low-savings-rate",
                      type |-> "goal",
                      impact |-> "High",
                      confidence |-> X100(100),
                      category |-> "Savings Goals",
                      actionable |-> TRUE,
                      priority |-> 9,
                      metadata |-> [current_rate |-> SavingsRateX100(income, expenses),
                                    target_rate |-> 20,
                                    monthly_income |-> income,
                                    monthly_expenses |-> expenses]] >>
             ELSE IF HighSavings(income, expenses)
             THEN << [id |-> "high-savings-rate",
                      type |-> "opportunity",
                      impact |-> "Medium",
                      confidence |-> X100(100),
                      category |-> "Investment Opportunity",
                      actionable |-> TRUE,
                      priority |-> 5,
                      metadata |-> [savings_rate |-> SavingsRateX100(income, expenses),
                                    surplus_amount |-> income - expenses]] >>
             ELSE <<>>
        ELSE <<>>

-----------------------------------------------------------------------------
(* detect_anomalies, lines 158-227.                                        *)

\* groupby(date)['amount'].sum(): <<date, total>> pairs in date order
DailySpending(expenses) ==
    LET days == SortedInts({expenses[i].date : i \in DOMAIN expenses})
    IN  [k \in DOMAIN days |->
            [key |-> days[k],
             total |-> SumSeq(Amounts(SelectSeq(expenses,
                                 LAMBDA r : r.date = days[k])))]]

Totals(groups) == [k \in DOMAIN groups |-> groups[k].total]

\* The values of a series divided by their greatest common divisor: mean,
\* standard deviation and their ratios are computed on these, which leaves
\* every ratio and comparison of the code unchanged and keeps the squares
\* within the integers of the checker.
Scaled(values) ==
    LET g == GCDSeq(values)
    IN  [i \in DOMAIN values |-> IF g = 0 THEN 0 ELSE values[i] \div g]

\* n * sum(x^2) - sum(x)^2 = n * (n - 1) * variance (sample, ddof = 1)
SpreadOf(v) == Len(v) * SumSquares(v) - SumSeq(v) * SumSeq(v)

\* line 176: x > mean + 2 * std over the series values, for its k-th element
IsOutlier(values, k) ==
    LET v == Scaled(values)
        n == Len(v)
        dev == n * v[k] - SumSeq(v)
    IN  dev > 0 /\ dev * dev * (n - 1) > 4 * SpreadOf(v) * n

\* (latest_outlier / mean_daily - 1) * 100, in hundredths of a percent
DeviationX100(values, k) ==
    LET v == Scaled(values)
    IN  MulDivT(Len(v) * v[k] - SumSeq(v), 10000, SumSeq(v))

\* lines 169-197: the daily outlier
DailyOutlier(expenses) ==
    LET daily == DailySpending(expenses)
        values == Totals(daily)
        outliers == {k \in DOMAIN daily : IsOutlier(values, k)}
        last == CHOOSE k \in outliers : \A j \in outliers : j <= k
    IN  IF Len(daily) >= 7 /\ outliers # {}
        THEN << [id |-> "anomaly-spending",
                 type |-> "alert",
                 impact |-> "Medium",
                 confidence |-> X100(90),
                 category |-> "Budget Control",
                 actionable |-> TRUE,
                 priority |-> 8,
                 metadata |-> [amount |-> daily[last].total,
                               date |-> daily[last].key,
                               deviation_percent |-> DeviationX100(values, last)]] >>
        ELSE <<>>

\* line 200: amount > expenses['amount'].quantile(0.95).  The quantile is
\* interpolated linearly between the two order statistics around position
\* 0.95 * (n - 1); both sides are multiplied by 20.
AboveQuantile95(expenses, amount) ==
    LET s   == SortInts(Amounts(expenses))
        pos == 19 * (Len(s) - 1)
        lo  == pos \div 20 + 1
        fr  == pos % 20
        hi  == IF fr = 0 THEN lo ELSE lo + 1
    IN  20 * amount > 20 * s[lo] + fr * (s[hi] - s[lo])

\* lines 200-205: the rows above the quantile dated in the last 7 days
RecentLarge(expenses, t) ==
    SelectSeq(expenses,
              LAMBDA r : AboveQuantile95(expenses, r.amount) /\ r.date >= t - 7)

\* Series.idxmax(): the index label of the first row holding the maximum
IdxMax(rows) ==
    LET first == CHOOSE i \in DOMAIN rows :
                    /\ \A j \in DOMAIN rows : rows[j].amount <= rows[i].amount
                    /\ \A j \in 1..(i - 1) : rows[j].amount < rows[i].amount
    IN  rows[first].idx

\* DataFrame.iloc[p] for an integer p >= 0: the row at 0-based position p,
\* IndexError when there is none
ILoc(rows, p) ==
    IF p < Len(rows) THEN [raised |-> FALSE, error |-> "", row |-> rows[p + 1]]
    ELSE [raised |-> TRUE, error |-> "single positional indexer is out-of-bounds",
          row |-> rows[1]]

\* line 208: recent_large.iloc[recent_large['amount'].idxmax()]
Largest(recent_large) == ILoc(recent_large, IdxMax(recent_large))

\* lines 199-225: the large transaction
LargeTransaction(expenses, t) ==
    LET recent_large == RecentLarge(expenses, t)
        largest == Largest(recent_large)
    IN  IF recent_large = <<>> THEN [raised |-> FALSE, error |-> "", insights |-> <<>>]
        ELSE IF largest.raised
            THEN [raised |-> TRUE, error |-> largest.error, insights |-> <<>>]
        ELSE [raised |-> FALSE, error |-> "", insights |->
              << [id |-> "large-transaction",
                  type |-> "alert",
                  impact |-> "Medium",
                  confidence |-> X100(100),
                  category |-> "Transaction Monitoring",
                  actionable |-> TRUE,
                  priority |-> 7,
                  metadata |-> [amount |-> largest.row.amount,
                                merchant |-> largest.row.merchant,
                                category |-> largest.row.category]] >>]

\* the insights returned, or the exception raised
detect_anomalies(frame, t) ==
    LET expenses == Expenses(frame)
        large == LargeTransaction(expenses, t)
    IN  IF Len(expenses) < 5 THEN [raised |-> FALSE, error |-> "", insights |-> <<>>]
        ELSE [large EXCEPT !.insights =
                 IF large.raised THEN <<>> ELSE DailyOutlier(expenses) \o @]

-----------------------------------------------------------------------------
(* predict_future_spending, lines 229-274.                                 *)

\* groupby(date.dt.to_period('M'))['amount'].sum(): the totals of the months
\* that hold an expense, in month order
MonthlySpending(expenses) ==
    LET months == SortedInts({MonthOf(expenses[i].date) : i \in DOMAIN expenses})
    IN  [k \in DOMAIN months |->
            [key |-> months[k],
             total |-> SumSeq(Amounts(SelectSeq(expenses,
                                 LAMBDA r : MonthOf(r.date) = months[k])))]]

RECURSIVE WeightedSum(_, _)
\* sum of (i - 1) * y[i] over the last Len(y) - from + 1 elements of y
WeightedSum(y, from) ==
    IF from > Len(y) THEN 0 ELSE (from - 1) * y[from] + WeightedSum(y, from + 1)

\* np.polyfit(range(m), y, 1)[0] = SlopeNum / SlopeDen, the least-squares slope
SlopeNum(y) ==
    LET m == Len(y)
    IN  m * WeightedSum(y, 1) - ((m * (m - 1)) \div 2) * SumSeq(y)

SlopeDen(y) ==
    LET m == Len(y)
        si == (m * (m - 1)) \div 2
        sq == ((m - 1) * m * (2 * m - 1)) \div 6
    IN  m * sq - si * si

\* the slope in mills per month, rounded toward zero
Trend(y) == MulDivT(SlopeNum(y), 1, SlopeDen(y))

\* abs(trend) > limit, limit in currency units
TrendExceeds(y, limit) == Abs(SlopeNum(y)) > Units(limit) * SlopeDen(y)

predict_future_spending(frame) ==
    LET expenses == Expenses(frame)
        amounts  == Totals(MonthlySpending(expenses))
        last_month == amounts[Len(amounts)]
        rising == SlopeNum(amounts) > 0
    IN  IF expenses = <<>> THEN <<>>
        ELSE IF Len(amounts) >= 2 /\ Len(amounts) >= 3 /\ TrendExceeds(amounts, 100)
        THEN << [id |-> "spending-prediction",
                 type |-> "prediction",
                 impact |-> IF TrendExceeds(amounts, 300) THEN "High" ELSE "Medium",
                 confidence |-> X100(75),
                 category |-> "Budget Planning",
                 actionable |-> rising,
                 priority |-> IF rising THEN 8 ELSE 6,
                 metadata |-> [predicted_amount |-> last_month + Trend(amounts),
                               trend |-> Trend(amounts),
                               last_month_amount |-> last_month]] >>
        ELSE <<>>

-----------------------------------------------------------------------------
(* find_recurring_charges, lines 424-448.                                  *)

\* the keys of groupby(['merchant', amount.round(2)]), in sorted order:
\* by merchant, then by rounded amount
RECURSIVE GroupKeysOf(_, _)
GroupKeysOf(expenses, merchants) ==
    IF merchants = <<>> THEN <<>>
    ELSE LET m == Head(merchants)
             amts == SortedInts({Round2(expenses[i].amount) :
                        i \in {j \in DOMAIN expenses : expenses[j].merchant = m}})
         IN  [k \in DOMAIN amts |-> [merchant |-> m, amount |-> amts[k]]]
             \o GroupKeysOf(expenses, Tail(merchants))

GroupKeys(expenses) == GroupKeysOf(expenses, Merchants)

\* the rows of one group, were the amounts grouped without round(2)
GroupRowsUnrounded(expenses, key) ==
    SelectSeq(expenses,
              LAMBDA r : r.merchant = key.merchant /\ r.amount = key.amount)

\* the rows of one group
GroupRows(expenses, key) ==
    SelectSeq(expenses,
              LAMBDA r : r.merchant = key.merchant /\ Round2(r.amount) = key.amount)

\* line 436: the gaps, in days, between consecutive sorted dates
Intervals(dates) == [i \in 1..(Len(dates) - 1) |-> dates[i + 1] - dates[i]]

\* line 437: np.mean(intervals), the exact quotient in lowest terms
Mean(intervals) ==
    LET total == SumSeq(intervals)
        g == GCD(total, Len(intervals))
    IN  [num |-> total \div g, den |-> Len(intervals) \div g]

\* line 440: 20 <= avg_interval <= 40, avg_interval = np.mean(intervals)
RoughlyMonthly(intervals) ==
    /\ 20 * Len(intervals) <= SumSeq(intervals)
    /\ SumSeq(intervals) <= 40 * Len(intervals)

\* lines 432-446: the entry of one group, if it is recurring
RecurringEntry(expenses, key) ==
    LET group == GroupRows(expenses, key)
        dates == SortInts([i \in DOMAIN group |-> group[i].date])
        intervals == Intervals(dates)
    IN  IF Len(group) >= 2 /\ Len(dates) >= 2 /\ RoughlyMonthly(intervals)
        THEN << [merchant |-> key.merchant,
                 amount |-> key.amount,
                 frequency |-> Len(group),
                 avg_interval_days |-> Mean(intervals)] >>
        ELSE <<>>

RECURSIVE RecurringOf(_, _)
RecurringOf(expenses, keys) ==
    IF keys = <<>> THEN <<>>
    ELSE RecurringEntry(expenses, Head(keys)) \o RecurringOf(expenses, Tail(keys))

find_recurring_charges(expenses) == RecurringOf(expenses, GroupKeys(expenses))

-----------------------------------------------------------------------------
(* identify_savings_opportunities, lines 276-333.                          *)

\* lines 289-307
SubscriptionInsight(recurring_charges) ==
    LET total_subscriptions ==
            SumSeq([i \in DOMAIN recurring_charges |-> recurring_charges[i].amount])
    IN  IF recurring_charges # <<>>
        THEN << [id |-> "subscription-optimization",
                 type |-> "recommendation",
                 impact |-> IF total_subscriptions > Units(100)
                            THEN "High" ELSE "Medium",
                 confidence |-> X100(95),
                 category |-> "Cost Optimization",
                 actionable |-> TRUE,
                 priority |-> 9,
                 metadata |-> [total_amount |-> total_subscriptions,
                               subscription_count |-> Len(recurring_charges),
                               subscriptions |-> recurring_charges]] >>
        ELSE <<>>

CategoryTotal(expenses, c) == SumSeq(Amounts(OfCategory(expenses, c)))

\* line 310: the categories that sort_values(ascending=False) may put first.
\* The sort is not stable, so any category holding the largest total may
\* come out first.
TopCategories(expenses) ==
    {c \in Range(CategoryKeys(expenses)) :
        \A d \in Range(CategoryKeys(expenses)) :
            CategoryTotal(expenses, d) <= CategoryTotal(expenses, c)}

\* lines 312-331, with top_category the category the sort put first
TopCategoryInsight(expenses, top_category) ==
    LET top_amount == CategoryTotal(expenses, top_category)
    IN  IF top_amount > Units(500)
        THEN << [id |-> "optimize-" \o Slug(top_category),
                 type |-> "opportunity",
                 impact |-> "Medium",
                 confidence |-> X100(80),
                 category |-> top_category,
                 actionable |-> TRUE,
                 priority |-> 6,
                 metadata |-> [amount |-> top_amount,
                               category |-> top_category]] >>
        ELSE <<>>

identify_savings_opportunities(frame, top_category) ==
    LET expenses == Expenses(frame)
    IN  IF expenses = <<>> THEN <<>>
        ELSE SubscriptionInsight(find_recurring_charges(expenses))
             \o TopCategoryInsight(expenses, top_category)

-----------------------------------------------------------------------------
(* detect_recurring_charges, lines 382-422.                                *)

\* lines 396-399: same merchant, amount within one currency unit
ChargeTransactions(expenses, charge) ==
    SelectSeq(expenses,
              LAMBDA r : r.merchant = charge.merchant
                         /\ Abs(r.amount - charge.amount) < Units(1))

\* the date of the latest row
MaxDate(rows) ==
    CHOOSE d \in {rows[i].date : i \in DOMAIN rows} :
        \A i \in DOMAIN rows : rows[i].date <= d

\* line 402: charge_transactions['date'].min()
MinDate(rows) ==
    CHOOSE d \in {rows[i].date : i \in DOMAIN rows} :
        \A i \in DOMAIN rows : d <= rows[i].date

\* lines 394-420: the body of the loop, for one charge
NewRecurring(expenses, charge, t) ==
    LET charge_transactions == ChargeTransactions(expenses, charge)
        first_occurrence == MinDate(charge_transactions)
    IN  IF charge_transactions # <<>> /\ first_occurrence >= t - 30
        THEN << [id |-> "new-recurring-" \o Slug(charge.merchant),
                 type |-> "alert",
                 impact |-> "Medium",
                 confidence |-> X100(85),
                 category |-> "Account Monitoring",
                 actionable |-> TRUE,
                 priority |-> 8,
                 metadata |-> [amount |-> charge.amount,
                               merchant |-> charge.merchant,
                               first_seen |-> first_occurrence]] >>
        ELSE <<>>

RECURSIVE NewRecurrings(_, _, _)
NewRecurrings(expenses, charges, t) ==
    IF charges = <<>> THEN <<>>
    ELSE NewRecurring(expenses, Head(charges), t)
         \o NewRecurrings(expenses, Tail(charges), t)

detect_recurring_charges(frame, t) ==
    LET expenses == Expenses(frame)
    IN  NewRecurrings(expenses, find_recurring_charges(expenses), t)

-----------------------------------------------------------------------------
(* calculate_health_score and its five scorers, lines 450-590.  A score is *)
(* a fixed-point number in hundredths of a point.                          *)

\* floor(100 * k * std / mean) of a series of at least two positive values:
\* k times the coefficient of variation (sample standard deviation)
KTimesCvX100(values, k) ==
    LET v == Scaled(values)
        n == Len(v)
        s == SumSeq(v)
    IN  ISqrt(MulDiv(SpreadOf(v), 10000 * k * k * n, (n - 1) * s * s))

\* min(100, max(0, 100 - cv * k)); Series.std() of a single value is NaN,
\* and max(0, NaN) is 0
VolatilityScore(values, k) ==
    IF Len(values) < 2 THEN 0
    ELSE Min2(X100(100), Max2(0, X100(100) - KTimesCvX100(values, k)))

\* lines 490-502
SpendingControlScore(frame) ==
    LET expenses == Amounts(Expenses(frame))
    IN  IF Len(expenses) < 3 THEN X100(75) ELSE VolatilityScore(expenses, 50)

\* lines 504-513
SavingsRateScore(income, expenses) ==
    IF income <= 0 THEN 0
    ELSE Min2(X100(100), Max2(0, MulDivT(income - expenses, 50000, income)))

\* lines 515-528
BudgetAdherenceScore(frame) ==
    LET expenses == Expenses(frame)
    IN  IF Len(expenses) < 7 THEN X100(70)
        ELSE VolatilityScore(Totals(DailySpending(expenses)), 30)

\* lines 530-548
StabilityScore(frame) ==
    LET monthly_expenses == Totals(MonthlySpending(Expenses(frame)))
    IN  IF Len(monthly_expenses) < 2 THEN X100(70)
        ELSE VolatilityScore(monthly_expenses, 40)

\* line 566 without its max(0, ...)
OverspendScoreUnclamped(income, expenses) ==
    X100(50) - MulDiv(expenses - income, 10000, income)

\* line 566: max(0, 50 - (ratio - 1) * 100), ratio = expenses / income > 1
OverspendScore(income, expenses) ==
    Max2(0, X100(50) - MulDiv(expenses - income, 10000, income))

\* lines 550-566
CashFlowScore(income, expenses) ==
    IF income <= 0 THEN 0
    ELSE IF 10 * expenses <= 7 * income THEN X100(100)
    ELSE IF 10 * expenses <= 8 * income THEN X100(85)
    ELSE IF 10 * expenses <= 9 * income THEN X100(70)
    ELSE IF expenses <= income THEN X100(50)
    ELSE OverspendScore(income, expenses)

\* recommendations[:3]
FirstThree(s) == SubSeq(s, 1, Min2(3, Len(s)))

\* the recommendations, were only the first three guards evaluated
FirstThreeGuards(overall_score, components) ==
    (IF components.savings_rate < X100(50)
     THEN <<"Increase your savings rate to at least 10-15% of income">>
     ELSE <<>>)
 \o (IF components.spending_control < X100(70)
     THEN <<"Work on reducing spending volatility by creating a budget">>
     ELSE <<>>)
 \o (IF components.budget_adherence < X100(70)
     THEN <<"Improve budget adherence by tracking daily expenses">>
     ELSE <<>>)

\* lines 568-590
GenerateHealthRecommendations(overall_score, components) ==
    FirstThree(
        (IF components.savings_rate < X100(50)
         THEN <<"Increase your savings rate to at least 10-15% of income">>
         ELSE <<>>)
     \o (IF components.spending_control < X100(70)
         THEN <<"Work on reducing spending volatility by creating a budget">>
         ELSE <<>>)
     \o (IF components.budget_adherence < X100(70)
         THEN <<"Improve budget adherence by tracking daily expenses">>
         ELSE <<>>)
     \o (IF components.financial_stability < X100(70)
         THEN <<"Focus on creating more consistent monthly spending patterns">>
         ELSE <<>>)
     \o (IF components.cash_flow_health < X100(60)
         THEN <<"Review and reduce monthly expenses to improve cash flow">>
         ELSE <<>>)
     \o (IF overall_score > X100(80)
         THEN <<"Great job! Consider investing surplus funds for long-term growth">>
         ELSE <<>>))

\* lines 464-470: the weighted average, in hundredths of a point
OverallScore(c) ==
    (25 * c.spending_control + 25 * c.savings_rate + 20 * c.budget_adherence
     + 15 * c.financial_stability + 15 * c.cash_flow_health) \div 100

\* lines 450-488; overall is round(overall / 10, 1), kept in tenths
calculate_health_score(frame) ==
    LET income   == Income(frame)
        expenses == ExpenseTotal(frame)
        c == [spending_control    |-> SpendingControlScore(frame),
              savings_rate        |-> SavingsRateScore(income, expenses),
              budget_adherence    |-> BudgetAdherenceScore(frame),
              financial_stability |-> StabilityScore(frame),
              cash_flow_health    |-> CashFlowScore(income, expenses)]
        overall == OverallScore(c)
    IN  [overall |-> RoundHalfEven(overall),
         components |->
            [spendingControl    |-> RoundHalfEven(c.spending_control),
             savingsRate        |-> RoundHalfEven(c.savings_rate),
             budgetAdherence    |-> RoundHalfEven(c.budget_adherence),
             financialStability |-> RoundHalfEven(c.financial_stability),
             cashFlowHealth     |-> RoundHalfEven(c.cash_flow_health)],
         recommendations |-> GenerateHealthRecommendations(overall, c)]

-----------------------------------------------------------------------------
(* get_demo_insights, lines 592-645.                                       *)

DemoInsights ==
    << [id |-> "demo-spending-trend", type |-> "prediction", impact |-> "Medium",
        confidence |-> X100(82), category |-> "Budget Planning",
        actionable |-> TRUE, priority |-> 8],
       [id |-> "demo-subscription", type |-> "recommendation", impact |-> "High",
        confidence |-> X100(94), category |-> "Cost Optimization",
        actionable |-> TRUE, priority |-> 9],
       [id |-> "demo-savings", type |-> "goal", impact |-> "High",
        confidence |-> X100(85), category |-> "Savings Goals",
        actionable |-> TRUE, priority |-> 8] >>

DemoHealthScore ==
    [overall |-> 78,
     components |-> [spendingControl |-> 82, savingsRate |-> 75,
                     budgetAdherence |-> 79, financialStability |-> 81,
                     cashFlowHealth |-> 77],
     recommendations |->
        <<"Increase your savings rate to at least 15% of income",
          "Consider investing surplus funds for long-term growth",
          "Review monthly subscriptions for optimization opportunities">>]

get_demo_insights == [insights |-> DemoInsights, healthScore |-> DemoHealthScore]

-----------------------------------------------------------------------------
(* The ranking of lines 59-63.                                             *)

\* the sort key, were it the priority alone
KeyLessByPriority(a, b) == a.priority < b.priority

\* the sort key of line 60, compared as Python compares tuples
KeyLess(a, b) ==
    \/ a.priority < b.priority
    \/ a.priority = b.priority /\ a.confidence < b.confidence

\* x placed in front of the elements whose key equals its own
RECURSIVE InsertBeforeEqual(_, _)
InsertBeforeEqual(x, s) ==
    IF s = <<>> THEN <<x>>
    ELSE IF ~KeyLess(x, Head(s)) THEN <<x>> \o s
    ELSE <<Head(s)>> \o InsertBeforeEqual(x, Tail(s))

\* x placed behind every element whose key is not smaller than its own
RECURSIVE InsertByKey(_, _)
InsertByKey(x, s) ==
    IF s = <<>> THEN <<x>>
    ELSE IF KeyLess(Head(s), x) THEN <<x>> \o s
    ELSE <<Head(s)>> \o InsertByKey(x, Tail(s))

\* list.sort(key=..., reverse=True): descending and stable, so elements with
\* equal keys keep the order they had in the list
RECURSIVE SortInsightsFrom(_, _)
SortInsightsFrom(sorted, rest) ==
    IF rest = <<>> THEN sorted
    ELSE SortInsightsFrom(InsertByKey(Head(rest), sorted), Tail(rest))

SortInsights(list) == SortInsightsFrom(<<>>, list)

\* insights[:8]
TopInsights(list) == SubSeq(list, 1, Min2(8, Len(list)))

\* lines 62-66
SuccessReport(list, score) ==
    [insights |-> TopInsights(list), healthScore |-> score, success |-> TRUE]

\* lines 69-74
FailureReport(message) ==
    [insights |-> get_demo_insights.insights,
     healthScore |-> get_demo_insights.healthScore,
     success |-> FALSE,
     error |-> message]

-----------------------------------------------------------------------------
(* The engine: __init__ (lines 17-19) and analyze_transactions (21-74).    *)

\* an empty dict
EmptyDict == [k \in {} |-> 0]

\* the value of a local that is not bound yet
Unset == [unset |-> TRUE]

\* line 46: the list the insights are collected in is a fresh local list
LocalInsights(self_insights) == <<>>

\* the ranked list kept on the instance ("self.insights = insights")
StoredInsightsKept(self_insights, list) == list

\* no statement of analyze_transactions assigns self.insights or
\* self.health_score: what they hold after a call that built list and score
StoredInsights(self_insights, list) == self_insights

StoredHealthScore(self_health_score, score) == self_health_score

\* the state at the start of a call with argument data at time t
Enter(data, t) ==
    /\ transactions_data' = data
    /\ now' = t
    /\ pc' = "call"
    /\ transactions' = <<>>
    /\ df' = <<>>
    /\ insights' = <<>>
    /\ emitted' = <<>>
    /\ health_score' = Unset
    /\ exc' = ""
    /\ result' = Unset

\* __init__, followed by the first call
Construct(inputs, times) ==
    /\ selfInsights = <<>>
    /\ selfHealthScore = EmptyDict
    /\ transactions_data \in inputs
    /\ now \in times
    /\ pc = "call"
    /\ transactions = <<>>
    /\ df = <<>>
    /\ insights = <<>>
    /\ emitted = <<>>
    /\ health_score = Unset
    /\ exc = ""
    /\ result = Unset
    /\ calls = <<>>

\* the except clause is entered with the exception e
Raise(message) ==
    /\ exc' = message
    /\ pc' = "except"

\* lines 27-33: decode the argument; the demo report for an empty one
Load ==
    /\ pc = "call"
    /\ LET decoded == Decode(transactions_data)
       IN  IF decoded.raised
           THEN /\ Raise(decoded.error)
                /\ UNCHANGED <<transactions, result>>
           ELSE IF IsEmptyInput(decoded.value)
           THEN /\ transactions' = decoded.value
                /\ result' = get_demo_insights
                /\ pc' = "done"
                /\ UNCHANGED exc
           ELSE /\ transactions' = decoded.value
                /\ pc' = "frame"
                /\ UNCHANGED <<exc, result>>
    /\ UNCHANGED <<selfInsights, selfHealthScore, transactions_data, now, df,
                   insights, emitted, health_score, calls>>

\* lines 36-46: the DataFrame, dates and amounts parsed
Frame ==
    /\ pc = "frame"
    /\ LET frame == BuildFrame(transactions)
       IN  IF frame.raised
           THEN /\ Raise(frame.error)
                /\ UNCHANGED <<df, insights>>
           ELSE /\ df' = frame.rows
                /\ insights' = LocalInsights(selfInsights)
                /\ pc' = "patterns"
                /\ UNCHANGED exc
    /\ UNCHANGED <<selfInsights, selfHealthScore, transactions_data, now,
                   transactions, emitted, health_score, result, calls>>

\* insights.extend(list) and on to the next statement
Extend(list, next) ==
    /\ emitted' = list
    /\ insights' = insights \o list
    /\ pc' = next
    /\ UNCHANGED <<selfInsights, selfHealthScore, transactions_data, now,
                   transactions, df, health_score, exc, result, calls>>

\* line 49
Patterns ==
    /\ pc = "patterns"
    /\ Extend(analyze_spending_patterns(df, now), "anomalies")

\* line 50
Anomalies ==
    /\ pc = "anomalies"
    /\ LET found == detect_anomalies(df, now)
       IN  IF found.raised
           THEN /\ Raise(found.error)
                /\ UNCHANGED <<selfInsights, selfHealthScore, transactions_data,
                               now, transactions, df, insights, emitted,
                               health_score, result, calls>>
           ELSE Extend(found.insights, "forecast")

\* line 51
Forecast ==
    /\ pc = "forecast"
    /\ Extend(predict_future_spending(df), "savings")

\* line 52
Savings ==
    /\ pc = "savings"
    /\ IF Expenses(df) = <<>>
       THEN Extend(<<>>, "cashflow")
       ELSE \E top_category \in TopCategories(Expenses(df)) :
               Extend(identify_savings_opportunities(df, top_category), "cashflow")

\* line 53
CashFlow ==
    /\ pc = "cashflow"
    /\ Extend(analyze_cash_flow(df), "recurring")

\* line 54
Recurring ==
    /\ pc = "recurring"
    /\ Extend(detect_recurring_charges(df, now), "score")

\* line 57
Score ==
    /\ pc = "score"
    /\ health_score' = calculate_health_score(df)
    /\ pc' = "rank"
    /\ UNCHANGED <<selfInsights, selfHealthScore, transactions_data, now,
                   transactions, df, insights, emitted, exc, result, calls>>

\* lines 59-66: sort, truncate, return
Rank ==
    /\ pc = "rank"
    /\ insights' = SortInsights(insights)
    /\ result' = SuccessReport(insights', health_score)
    /\ selfInsights' = StoredInsights(selfInsights, insights')
    /\ selfHealthScore' = StoredHealthScore(selfHealthScore, health_score)
    /\ pc' = "done"
    /\ UNCHANGED <<transactions_data, now, transactions, df, emitted,
                   health_score, exc, calls>>

\* lines 68-74: any exception becomes the fallback report
Except ==
    /\ pc = "except"
    /\ result' = FailureReport(exc)
    /\ pc' = "done"
    /\ UNCHANGED <<selfInsights, selfHealthScore, transactions_data, now,
                   transactions, df, insights, emitted, health_score, exc,
                   calls>>

\* one call of analyze_transactions, step by step
Next ==
    \/ Load
    \/ Frame
    \/ Patterns
    \/ Anomalies
    \/ Forecast
    \/ Savings
    \/ CashFlow
    \/ Recurring
    \/ Score
    \/ Rank
    \/ Except

-----------------------------------------------------------------------------
(* The inputs the engine is checked on.                                    *)

\* every list of at most n elements of the set S
ListsUpTo(S, n) == UNION {[1..k -> S] : k \in 0..n}

\* Mixed family: short lists of well-formed and malformed records, handed
\* over as a list or as JSON text, and text that is not JSON.
MixedRecords ==
    { Tx(Now - 3, -Units(40), "Dining", "Store"),
      Tx(Now - 10, Units(100), "Rent", "Store"),
      BadDateTx(-Units(40), "Dining", "Store"),
      BadAmountTx(Now - 3, "Dining", "Store"),
      NoAmountTx(Now - 3, "Dining", "Store") }

MixedInputs ==
    {AsList(l) : l \in ListsUpTo(MixedRecords, MaxMixed)}
    \cup {AsText(l) : l \in ListsUpTo(MixedRecords, 1)}
    \cup {InvalidText}

\* Run family: one record every stride days back from now, the i-th record
\* dated now - (i - 1) * stride, its amount an expense of 10 or of 400 or an
\* income of 1000, its category alternating.
RunAmounts == {-Units(10), -Units(400), Units(1000)}

Strides == {0, 1, 12}

RunList(amounts, stride) ==
    [i \in DOMAIN amounts |->
        Tx(Now - (i - 1) * stride, amounts[i],
           IF i % 2 = 1 THEN "Dining" ELSE "Rent", "Store")]

RunInputs ==
    {AsList(RunList(a, s)) : a \in ListsUpTo(RunAmounts, MaxRun), s \in Strides}

Init == Construct(MixedInputs \cup RunInputs, {Now})

Spec == Init /\ [][Next]_vars

-----------------------------------------------------------------------------
(* Further input families, each with its own specification.  Every family  *)
(* also holds the empty list and a list with an unparseable amount.        *)

CommonInputs ==
    {AsList(<<>>), AsList(<<BadAmountTx(Now - 3, "Dining", "Store")>>)}

\* Cash-flow family: incomes of 5000 and 1000, expenses of 2000, 900 and 700.
CashAmounts == {Units(5000), Units(1000), -Units(2000), -Units(900), -Units(700)}

CashInputs ==
    {AsList([i \in DOMAIN a |-> Tx(Now - 1, a[i], "Dining", "Store")]) :
        a \in ListsUpTo(CashAmounts, MaxCash)}

InitCashFlow == Construct(CashInputs \cup CommonInputs, {Now})

SpecCashFlow == InitCashFlow /\ [][Next]_vars

\* Recurring-charge family: charges of 15.00 and 15.004 at two merchants,
\* dated 0, 20, 32, 40 or 64 days before now, or 20 days after it.
ChargeRecords ==
    {Tx(Now - d, -15000, "Dining", "Netflix") : d \in {-20, 0, 20, 32, 40, 64}}
    \cup {Tx(Now - d, -15004, "Dining", "Netflix") : d \in {0, 32}}
    \cup {Tx(Now - d, -15000, "Rent", "Gym") : d \in {0, 40}}

ChargeInputs == {AsList(l) : l \in ListsUpTo(ChargeRecords, MaxCharges)}

InitRecurring == Construct(ChargeInputs \cup CommonInputs, {Now})

SpecRecurring == InitRecurring /\ [][Next]_vars

\* Category-trend family: expenses of 200, 250 and 300 in two categories,
\* dated after now, 30, 31, 60 and 61 days before now.
TrendRecords ==
    {Tx(Now - d, -Units(a), "Dining", "Store") :
        d \in {30, 31}, a \in {200, 250, 300}}
    \cup {Tx(Now - d, -Units(200), "Dining", "Store") : d \in {-1, 60, 61}}
    \cup {Tx(Now - d, -Units(200), "Eating Out", "Store") : d \in {30, 31}}

TrendInputs == {AsList(l) : l \in ListsUpTo(TrendRecords, MaxTrend)}

InitPatterns == Construct(TrendInputs \cup CommonInputs, {Now})

SpecPatterns == InitPatterns /\ [][Next]_vars

\* Busy family: the sub-lists of one history in which every analyzer but
\* the anomaly detector and the forecast has something to report: two new
\* subscriptions, three categories whose spending fell, one category above
\* 500, and an income far below the expenses.
BusyRecords(income) ==
    << Tx(Now - 40, -Units(600), "Dining", "Store"),
       Tx(Now - 40, -Units(200), "Rent", "Store"),
       Tx(Now - 40, -Units(200), "Eating Out", "Store"),
       Tx(Now - 25, -Units(15), "Dining", "Netflix"),
       Tx(Now - 25, -Units(15), "Rent", "Gym"),
       Tx(Now - 1, -Units(10), "Eating Out", "Store"),
       Tx(Now, -Units(15), "Dining", "Netflix"),
       Tx(Now, -Units(15), "Rent", "Gym"),
       Tx(Now - 2, income, "Rent", "Store") >>

BusyIncomes == {Units(100), Units(5000)}

\* the records of list at the positions of keep, in their order
RECURSIVE SubList(_, _)
SubList(list, keep) ==
    IF list = <<>> THEN <<>>
    ELSE (IF Len(list) \in keep THEN SubList(SubSeq(list, 1, Len(list) - 1), keep)
                                        \o <<list[Len(list)]>>
          ELSE SubList(SubSeq(list, 1, Len(list) - 1), keep))

BusyInputs ==
    {AsList(SubList(BusyRecords(income), keep)) :
        income \in BusyIncomes, keep \in SUBSET DOMAIN BusyRecords(0)}

InitBusy == Construct(BusyInputs \cup CommonInputs, {Now})

SpecBusy == InitBusy /\ [][Next]_vars

\* Repeated calls on one engine instance, at two different times.
CallInputs ==
    { AsList(<<>>),
      InvalidText,
      AsList(<<BadAmountTx(Now - 3, "Dining", "Store")>>),
      AsList(RunList(<<-Units(400), -Units(10), Units(1000)>>, 12)),
      AsList(RunList(<<-Units(10), -Units(10), -Units(10), -Units(10),
                       -Units(400)>>, 1)) }

CallTimes == {Now, Now + 30}

\* the caller keeps the report and calls analyze_transactions again
CallAgain ==
    /\ pc = "done"
    /\ Len(calls) < MaxCalls - 1
    /\ calls' = Append(calls, [data |-> transactions_data, now |-> now,
                               result |-> result])
    /\ \E data \in CallInputs, t \in CallTimes : Enter(data, t)
    /\ UNCHANGED <<selfInsights, selfHealthScore>>

NextCalls ==
    \/ Next
    \/ CallAgain

InitCalls == Construct(CallInputs, CallTimes)

SpecCalls == InitCalls /\ [][NextCalls]_vars

-----------------------------------------------------------------------------
(* The claims.  A call has returned when pc = "done"; result is its        *)
(* report.                                                                 *)

Returned == pc = "done"

\* the records handed to the call, as a list or inside JSON text
InputRecords == transactions_data.items

EmptyInputCall == transactions_data.valid /\ InputRecords = <<>>

\* a record with its date and its amount present and parseable
WellFormed(tx) == tx.date.k = "ts" /\ tx.amount.k = "num"

WellFormedCall ==
    /\ transactions_data.valid
    /\ InputRecords # <<>>
    /\ \A i \in DOMAIN InputRecords : WellFormed(InputRecords[i])

HasField(report, name) == name \in DOMAIN report

\* the fallback report of a failure: success false, a message, demo content
IsFailureReport(report) ==
    /\ HasField(report, "success") /\ report.success = FALSE
    /\ HasField(report, "error") /\ report.error # ""
    /\ report.insights = DemoInsights
    /\ report.healthScore = DemoHealthScore

IsSuccessReport(report) == HasField(report, "success") /\ report.success = TRUE

\* C1: for every non-empty input whose dates and amounts all parse, the
\* report holds at most 8 insights, ordered non-increasing by (priority,
\* confidence), and they are the first 8 of the sorted list of the emitted
\* insights: none that was left out has a greater key than one returned.
C1_RankedTopEight ==
    (Returned /\ WellFormedCall) =>
        LET r == result.insights
        IN  /\ Len(r) <= 8
            /\ \A i, j \in DOMAIN r : i < j => ~KeyLess(r[i], r[j])
            /\ Len(r) = Min2(8, Len(insights))
            /\ \A i \in DOMAIN r : r[i] \in Range(insights)
            /\ \A i \in DOMAIN insights, j \in DOMAIN r :
                  insights[i] \notin Range(r) => ~KeyLess(r[j], insights[i])

\* C2: an empty input (an empty list, or JSON text of an empty list) returns
\* the fixed demo report, the same literals every time, with no error field
\* and no success field set to false.
C2_EmptyInputDemo ==
    (Returned /\ EmptyInputCall) =>
        /\ result = get_demo_insights
        /\ [i \in DOMAIN result.insights |-> result.insights[i].id]
              = <<"demo-spending-trend", "demo-subscription", "demo-savings">>
        /\ result.healthScore.overall = 78
        /\ result.healthScore.components =
              [spendingControl |-> 82, savingsRate |-> 75, budgetAdherence |-> 79,
               financialStability |-> 81, cashFlowHealth |-> 77]
        /\ ~HasField(result, "error")
        /\ HasField(result, "success") => result.success

\* C2's case: a call with the JSON text of an empty list has returned.
C2_Witness ==
    /\ Returned
    /\ transactions_data = AsText(<<>>)
    /\ result.insights = DemoInsights

\* C3: a non-empty input with an unparseable date, an unparseable
\* amount or a missing field in some record, or invalid JSON text, returns
\* the failure report with the demo content.
C3_MalformedFails ==
    (/\ Returned
     /\ \/ ~transactions_data.valid
        \/ \E i \in DOMAIN InputRecords : ~WellFormed(InputRecords[i]))
    => IsFailureReport(result)

\* C4: every report carries a boolean success field, an error field is
\* present exactly when success is false, and the report of an empty input
\* has success = true.
C4_SuccessFieldPresent ==
    Returned =>
        /\ HasField(result, "success")
        /\ result.success \in BOOLEAN
        /\ HasField(result, "error") <=> ~result.success
        /\ EmptyInputCall => result.success

\* C5: for a non-empty input whose records all have parseable dates and
\* amounts no analyzer or scorer raises: the call returns success = true
\* with the insights and the score computed from the input.
C5_WellFormedSucceeds ==
    WellFormedCall =>
        /\ pc # "except"
        /\ Returned =>
              /\ IsSuccessReport(result)
              /\ ~HasField(result, "error")
              /\ result.healthScore = health_score
              /\ result.insights = TopInsights(insights)

\* C6: in every report healthScore.overall lies in [0, 10] (0..100 tenths)
\* and components has exactly the five keys, each an integer in [0, 100].
C6_ScoresInRange ==
    Returned =>
        LET h == result.healthScore
        IN  /\ h.overall \in 0..100
            /\ DOMAIN h.components =
                  {"spendingControl", "savingsRate", "budgetAdherence",
                   "financialStability", "cashFlowHealth"}
            /\ \A k \in DOMAIN h.components : h.components[k] \in 0..100

\* C6's case: a successful report for expenses of more than twice the income.
C6_Witness ==
    /\ Returned
    /\ IsSuccessReport(result)
    /\ Income(df) > 0
    /\ ExpenseTotal(df) > 2 * Income(df)
    /\ result.healthScore.components.cashFlowHealth = 0
    /\ result.healthScore.components.savingsRate = 0

\* C7: analyze_transactions keeps no state between invocations: the fields
\* of the engine stay as __init__ left them, and a call returns the report
\* that every earlier call with the same input and the same now returned,
\* whatever calls were made in between.
C7_NoStateBetweenCalls ==
    /\ selfInsights = <<>>
    /\ selfHealthScore = EmptyDict
    /\ Returned =>
          \A i \in DOMAIN calls :
              (calls[i].data = transactions_data /\ calls[i].now = now)
                  => calls[i].result = result

\* C7's case: a successful call, a different call, and the first call again.
C7_Witness ==
    /\ Returned
    /\ Len(calls) = 2
    /\ calls[1].data = transactions_data
    /\ calls[1].now = now
    /\ calls[2].data # transactions_data
    /\ IsSuccessReport(result)
    /\ result.insights # <<>>

\* the incomes and the expenses of the records handed to the call
InputIncome ==
    SumSeq([i \in DOMAIN InputRecords |->
               IF InputRecords[i].amount.k = "num" /\ InputRecords[i].amount.v > 0
               THEN InputRecords[i].amount.v ELSE 0])

InputExpenses ==
    SumSeq([i \in DOMAIN InputRecords |->
               IF InputRecords[i].amount.k = "num" /\ InputRecords[i].amount.v < 0
               THEN -InputRecords[i].amount.v ELSE 0])

\* the insights with a given id among those the last analyzer returned
EmittedWithId(name) == SelectSeq(emitted, LAMBDA x : x.id = name)

\* the cash-flow analyzer has just run
CashFlowRan == pc = "recurring"

\* C8: the cash-flow analyzer emits at most one insight: 'low-savings-rate'
\* (goal, priority 9, confidence 100, High) iff income > 0 and the savings
\* rate is below 10, 'high-savings-rate' (opportunity, priority 5,
\* confidence 100, Medium) iff income > 0 and the rate is above 30, nothing
\* otherwise; income 5000 with expenses 2000 gives the high-savings-rate
\* insight and a savingsRate sub-score of 100.
C8_CashFlowInsight ==
    /\ CashFlowRan =>
          LET low  == EmittedWithId("low-savings-rate")
              high == EmittedWithId("high-savings-rate")
              rateBelow10 == 10 * (InputIncome - InputExpenses) < InputIncome
              rateAbove30 == 10 * (InputIncome - InputExpenses) > 3 * InputIncome
          IN  /\ Len(emitted) <= 1
              /\ Len(emitted) = Len(low) + Len(high)
              /\ low # <<>> <=> (InputIncome > 0 /\ rateBelow10)
              /\ high # <<>> <=> (InputIncome > 0 /\ rateAbove30)
              /\ \A i \in DOMAIN low :
                    /\ low[i].type = "goal" /\ low[i].priority = 9
                    /\ low[i].confidence = X100(100) /\ low[i].impact = "High"
              /\ \A i \in DOMAIN high :
                    /\ high[i].type = "opportunity" /\ high[i].priority = 5
                    /\ high[i].confidence = X100(100) /\ high[i].impact = "Medium"
              /\ (InputIncome = Units(5000) /\ InputExpenses = Units(2000))
                    => high # <<>>
    /\ (pc = "rank" /\ InputIncome = Units(5000) /\ InputExpenses = Units(2000))
          => health_score.components.savingsRate = 100

\* C8's case: income 5000, expenses 2000, the high-savings-rate insight.
C8_Witness ==
    /\ CashFlowRan
    /\ InputIncome = Units(5000)
    /\ InputExpenses = Units(2000)
    /\ Len(emitted) = 1
    /\ emitted[1].id = "high-savings-rate"

\* an amount of the expense view to the nearest cent
NearestCent(a) == ((a + 5) \div 10) * 10

\* the rows of the expense view with merchant m and rounded amount a
ChargeGroup(m, a) ==
    {i \in DOMAIN Expenses(df) :
        Expenses(df)[i].merchant = m /\ NearestCent(Expenses(df)[i].amount) = a}

GroupDates(G) == {Expenses(df)[i].date : i \in G}

\* the gaps between consecutive sorted dates add up to last - first
GapSum(G) ==
    (CHOOSE d \in GroupDates(G) : \A e \in GroupDates(G) : e <= d)
    - (CHOOSE d \in GroupDates(G) : \A e \in GroupDates(G) : d <= e)

\* the savings-opportunity finder has just run
SavingsRan == pc = "cashflow"

WindowTotal(c, lo, hi) ==
    SumSeq([i \in DOMAIN InputRecords |->
               IF /\ InputRecords[i].category = c
                  /\ InputRecords[i].amount.k = "num"
                  /\ InputRecords[i].amount.v < 0
                  /\ lo <= InputRecords[i].date.v
                  /\ InputRecords[i].date.v <= hi
               THEN -InputRecords[i].amount.v ELSE 0])

ExpenseCategories ==
    {InputRecords[i].category :
        i \in {j \in DOMAIN InputRecords :
                  InputRecords[j].amount.k = "num" /\ InputRecords[j].amount.v < 0}}

\* the category-trend insight of category c, with the fields of the claim,
\* is emitted exactly when both totals are positive and differ by over 25%
TrendAsClaimed(c, recent, previous) ==
    LET trend == EmittedWithId("category-trend-" \o Slug(c))
        fires == /\ recent > 0
                 /\ previous > 0
                 /\ 100 * Abs(recent - previous) > 25 * previous
    IN  /\ Len(trend) = IF fires THEN 1 ELSE 0
        /\ \A i \in DOMAIN trend :
              /\ trend[i].type = IF recent > previous
                                 THEN "recommendation" ELSE "opportunity"
              /\ trend[i].confidence = X100(85)
              /\ trend[i].priority = 6
              /\ trend[i].impact = "Medium"
              /\ trend[i].actionable = TRUE
              /\ trend[i].category = c

\* the pattern analyzer has just run
PatternsRan == pc = "anomalies"

\* C10: for every category of the expense view a category-trend
\* insight is emitted iff the category's total over the last 30 days (from
\* now - 30 to now) and its total over days 31-60 before now are both
\* positive and differ by more than 25%; type 'recommendation' on an
\* increase and 'opportunity' on a decrease, confidence 85, priority 6,
\* impact Medium, actionable.
C10_CategoryTrendLast30Days ==
    PatternsRan =>
        \A c \in ExpenseCategories :
            TrendAsClaimed(c, WindowTotal(c, now - 30, now),
                              WindowTotal(c, now - 60, now - 31))

\* the insight types and impacts of the report format
InsightTypes == {"alert", "prediction", "recommendation", "opportunity", "goal"}

InsightImpacts == {"Low", "Medium", "High"}

\* C11: every insight of every returned report (normal, empty-input demo,
\* failure fallback) has the priority, confidence and metadata fields, with
\* confidence in [0, 100], a type among alert / prediction / recommendation
\* / opportunity / goal and an impact among Low / Medium / High.
C11_InsightFieldsPresent ==
    Returned =>
        \A i \in DOMAIN result.insights :
            LET x == result.insights[i]
            IN  /\ HasField(x, "priority")
                /\ HasField(x, "confidence")
                /\ HasField(x, "metadata")
                /\ 0 <= x.confidence /\ x.confidence <= X100(100)
                /\ x.type \in InsightTypes
                /\ x.impact \in InsightImpacts

\* the position, in the order of lines 49-54, of the analyzer that emits
\* the insight x
AnalyzerOf(x) ==
    CASE x.id \in {"spending-trend"}
                  \cup {"category-trend-" \o Slug(c) : c \in Range(Categories)} -> 1
      [] x.id \in {"anomaly-spending", "large-transaction"} -> 2
      [] x.id = "spending-prediction" -> 3
      [] x.id \in {"subscription-optimization"}
                  \cup {"optimize-" \o Slug(c) : c \in Range(Categories)} -> 4
      [] x.id \in {"low-savings-rate", "high-savings-rate"} -> 5
      [] x.id \in {"new-recurring-" \o Slug(m) : m \in Range(Merchants)} -> 6

\* the elements of list whose (priority, confidence) key is that of x, in
\* the order they have in list
WithKeyOf(list, x) ==
    SelectSeq(list, LAMBDA y : y.priority = x.priority
                               /\ y.confidence = x.confidence)

\* C12: among insights with equal (priority, confidence) the returned order
\* is the emission order - spending patterns, anomalies, forecast, savings
\* opportunities, cash flow, recurring-charge changes, and within one
\* analyzer the order of appending; the descending sort keeps equal-key
\* insights in that order.
C12_StableAmongEqualKeys ==
    [][(pc = "rank" /\ pc' = "done") =>
          /\ \A i, j \in DOMAIN insights :
                i < j => AnalyzerOf(insights[i]) <= AnalyzerOf(insights[j])
          /\ Len(insights') = Len(insights)
          /\ \A i \in DOMAIN insights :
                WithKeyOf(insights', insights[i]) = WithKeyOf(insights, insights[i])
          /\ result'.insights = SubSeq(insights', 1, Min2(8, Len(insights')))
      ]_vars

\* C12's case: a returned report in which the spending-trend alert and the
\* subscription insight have the same key (9, 95) and the one emitted first
\* comes first.
C12_Witness ==
    /\ Returned
    /\ IsSuccessReport(result)
    /\ \E i \in DOMAIN result.insights :
          /\ i + 1 \in DOMAIN result.insights
          /\ result.insights[i].id = "spending-trend"
          /\ result.insights[i + 1].id = "subscription-optimization"
          /\ result.insights[i].priority = result.insights[i + 1].priority
          /\ result.insights[i].confidence = result.insights[i + 1].confidence

\* the anomaly detector has run on the frame: it returned or it raised
AnomaliesRan == pc = "forecast" \/ (pc = "except" /\ df # <<>>)

\* the expenses above the 95th percentile of all expense magnitudes that
\* are dated in the last 7 days
RecentAboveThreshold ==
    {i \in DOMAIN Expenses(df) :
        /\ AboveQuantile95(Expenses(df), Expenses(df)[i].amount)
        /\ now - 7 <= Expenses(df)[i].date
        /\ Expenses(df)[i].date <= now}

\* C13: with at least 5 expenses and at least one expense strictly above
\* the 95th percentile dated within the last 7 days, detect_anomalies emits
\* exactly one 'large-transaction' insight, reporting the amount, merchant
\* and category of the largest such expense, wherever that expense stands
\* in the input list.
C13_LargestRecentReported ==
    (/\ AnomaliesRan
     /\ Len(Expenses(df)) >= 5
     /\ RecentAboveThreshold # {})
    => /\ pc = "forecast"
       /\ Len(EmittedWithId("large-transaction")) = 1
       /\ \E i \in RecentAboveThreshold :
             /\ \A j \in RecentAboveThreshold :
                   Expenses(df)[j].amount <= Expenses(df)[i].amount
             /\ EmittedWithId("large-transaction")[1].metadata =
                   [amount |-> Expenses(df)[i].amount,
                    merchant |-> Expenses(df)[i].merchant,
                    category |-> Expenses(df)[i].category]

\* the health scorer has run
ScoreRan == pc = "rank"

\* the six guards of the recommendations, in their fixed order, on the
\* sub-scores and the 0-100 overall score of the frame
GuardsFired ==
    LET income   == Income(df)
        expenses == ExpenseTotal(df)
        sub == [spending_control    |-> SpendingControlScore(df),
                savings_rate        |-> SavingsRateScore(income, expenses),
                budget_adherence    |-> BudgetAdherenceScore(df),
                financial_stability |-> StabilityScore(df),
                cash_flow_health    |-> CashFlowScore(income, expenses)]
    IN  << sub.savings_rate < X100(50),
           sub.spending_control < X100(70),
           sub.budget_adherence < X100(70),
           sub.financial_stability < X100(70),
           sub.cash_flow_health < X100(60),
           OverallScore(sub) > X100(80) >>

GuardMessages ==
    << "Increase your savings rate to at least 10-15% of income",
       "Work on reducing spending volatility by creating a budget",
       "Improve budget adherence by tracking daily expenses",
       "Focus on creating more consistent monthly spending patterns",
       "Review and reduce monthly expenses to improve cash flow",
       "Great job! Consider investing surplus funds for long-term growth" >>

\* how many of the guards before the k-th fired
FiredBefore(k) == Cardinality({j \in 1..(k - 1) : GuardsFired[j]})

\* C14: the recommendations of a computed health score are the first 3 (or
\* fewer) of the recommendations whose guards hold, in the fixed order of
\* the six guards; every guard is evaluated, so the k-th recommendation is
\* present exactly when its guard holds and fewer than 3 earlier guards
\* fired.
C14_FirstThreeFired ==
    ScoreRan =>
        LET recs == health_score.recommendations
        IN  /\ Len(recs) = Min2(3, FiredBefore(7))
            /\ \A k \in 1..6 :
                  (GuardsFired[k] /\ FiredBefore(k) < 3)
                      <=> /\ FiredBefore(k) + 1 \in DOMAIN recs
                          /\ recs[FiredBefore(k) + 1] = GuardMessages[k]

\* C14's case: the first three guards did not all fire and a recommendation
\* of the fifth guard is returned.
C14_Witness ==
    /\ ScoreRan
    /\ FiredBefore(4) < 3
    /\ GuardsFired[5]
    /\ \E i \in DOMAIN health_score.recommendations :
          health_score.recommendations[i] = GuardMessages[5]

\* the low-savings-rate insight among the insights of the run
LowSavingsEmitted == \E i \in DOMAIN insights : insights[i].id = "low-savings-rate"

\* C15: in every successful run in which the cash-flow analyzer emits the
\* 'low-savings-rate' insight, that insight is the first of the returned
\* list, so the cut to 8 never removes it: every other insight of the run
\* has a (priority, confidence) key below (9, 100).
C15_LowSavingsFirst ==
    (Returned /\ IsSuccessReport(result) /\ LowSavingsEmitted) =>
        /\ result.insights # <<>>
        /\ result.insights[1].id = "low-savings-rate"
        /\ result.insights[1].priority = 9
        /\ result.insights[1].confidence = X100(100)
        /\ \A i \in DOMAIN insights :
              insights[i].id # "low-savings-rate"
                  => \/ insights[i].priority < 9
                     \/ insights[i].priority = 9 /\ insights[i].confidence < X100(100)

\* C15's case: a run that emits more than 8 insights, two of them with
\* priority 9 emitted before the low-savings-rate goal, returns 8 with the
\* goal first.
C15_Witness ==
    /\ Returned
    /\ IsSuccessReport(result)
    /\ Len(insights) > 8
    /\ Len(result.insights) = 8
    /\ result.insights[1].id = "low-savings-rate"
    /\ result.insights[2].id = "spending-trend"
    /\ result.insights[2].priority = 9
    /\ result.insights[3].id = "subscription-optimization"

\* the recurring-charge change detector has just run
RecurringRan == pc = "score"

\* no record of the input is dated after now
NoneDatedAfterNow ==
    \A i \in DOMAIN InputRecords :
        InputRecords[i].date.k = "ts" => InputRecords[i].date.v <= now

\* the 'new recurring charge' alerts the detector returned
NewChargeAlerts ==
    SelectSeq(emitted, LAMBDA x : x.category = "Account Monitoring")

\* C16: when no transaction is dated after now, every 'new recurring
\* charge' alert refers to a (merchant, rounded amount) group of exactly 2
\* occurrences 20 to 30 days apart; a recurring group of 3 or more
\* occurrences spans at least 40 days and never produces the alert.
C16_NewChargeHasTwoOccurrences ==
    (RecurringRan /\ NoneDatedAfterNow) =>
        LET found == find_recurring_charges(Expenses(df))
        IN  /\ \A i \in DOMAIN NewChargeAlerts :
                  LET G == ChargeGroup(NewChargeAlerts[i].metadata.merchant,
                                       NewChargeAlerts[i].metadata.amount)
                  IN  /\ Cardinality(G) = 2
                      /\ 20 <= GapSum(G)
                      /\ GapSum(G) <= 30
            /\ \A k \in DOMAIN found :
                  found[k].frequency >= 3 =>
                      /\ GapSum(ChargeGroup(found[k].merchant, found[k].amount)) >= 40
                      /\ \A i \in DOMAIN NewChargeAlerts :
                            \/ NewChargeAlerts[i].metadata.merchant # found[k].merchant
                            \/ NewChargeAlerts[i].metadata.amount # found[k].amount

\* C16's case: two charges 20 days apart, none dated after now, and the
\* alert for them.
C16_Witness ==
    /\ RecurringRan
    /\ NoneDatedAfterNow
    /\ Len(NewChargeAlerts) = 1
    /\ NewChargeAlerts[1].id = "new-recurring-netflix"
    /\ GroupDates(ChargeGroup("Netflix", 15000)) = {now - 20, now}
    /\ Cardinality(ChargeGroup("Netflix", 15000)) = 2

=============================================================================
